---- MODULE Spec2Model ----
(***************************************************************************)
(* Model of src/src/clean-snapshots.tsx: the PasswordForm, the bounded     *)
(* concurrency runner runWithConcurrencyLimit and deleteSnapshots.         *)
(*                                                                         *)
(* JavaScript runs one job at a time.  A job is either the synchronous     *)
(* body of the runner's for loop, the head of the microtask queue, or a    *)
(* macrotask (the completion of a child process).  A macrotask runs only   *)
(* when the microtask queue is empty and no synchronous code is running.   *)
(*                                                                         *)
(* Spec            : the program (PasswordForm -> deleteSnapshots ->       *)
(*                   runner -> report), for the documented preferences.    *)
(* SpecRunner      : runWithConcurrencyLimit alone, called with an         *)
(*                   arbitrary task function whose promise fulfils with a  *)
(*                   value or rejects.                                     *)
(* SpecRunnerFair  : the same with a task function that always fulfils,    *)
(*                   under weak fairness of the event loop.                *)
(* SpecAll         : Spec and SpecRunner side by side.                     *)
(* SpecPreferences : the reading of the configured concurrency, for every  *)
(*                   configured value.                                     *)
(* SpecScenarioB   : the program on four snapshots with limit 2, the       *)
(*                   command of the second one rejected by sudo.           *)
(* SpecNotices     : the report of deleteSnapshots, for every outcome list *)
(*                   of up to MaxOutcomes snapshots.                       *)
(***************************************************************************)
EXTENDS Integers, Sequences, FiniteSets, TLC

(* ---------------- bounds of the model ---------------- *)
MaxItems == 3
MaxLimit == 4
MaxPwLen == 1
MaxPrefLen == 2
MaxOutcomes == 5

(* ---------------- values ---------------- *)
\* characters a password is made of: a blank and a non-blank
Chars == {" ", "x"}
\* values a generic task can return
Values == {"a", "b"}
\* the value of an async function that returns nothing
Undefined == "undefined"
\* snapshot identifiers (opaque, unique)
SnapshotId(k) == 100 + k

VARIABLES
    \* PasswordForm
    password, error, isVerifying, formShown, submitted, verified,
    \* Command / deleteSnapshots
    preferences, credential, phase, selectedSnapshots, snapshotsToDelete, concurrencyLimit,
    isDeleting, deletionProgress, toast, results, completedCount, authFailed,
    commands, summary, notices, timers,
    \* runWithConcurrencyLimit
    items, limit, index, runnerPc, pending, promises, executing,
    taskState, taskValue, resolved, settleOrder,
    \* event loop
    microtasks

formVars == <<password, error, isVerifying, formShown, submitted, verified>>
deleteVars == <<preferences, credential, phase, selectedSnapshots, snapshotsToDelete,
                concurrencyLimit, isDeleting, deletionProgress, toast, results,
                completedCount, authFailed, commands, summary, notices, timers>>
runnerVars == <<items, limit, index, runnerPc, pending, promises, executing,
                taskState, taskValue, resolved, settleOrder>>
vars == <<formVars, deleteVars, runnerVars, microtasks>>

(* ---------------- helpers ---------------- *)
Job(t, i) == [type |-> t, i |-> i]

\* Array.prototype.indexOf: first position of x in s, -1 (here 0) if absent
RECURSIVE IndexOfFrom(_, _, _)
IndexOfFrom(s, x, k) ==
    IF k > Len(s) THEN 0
    ELSE IF s[k] = x THEN k ELSE IndexOfFrom(s, x, k + 1)
IndexOf(s, x) == IndexOfFrom(s, x, 1)

\* executing.splice(pos, 1), with pos = executing.indexOf(p).  indexOf gives
\* -1 for an absent element and splice(-1, 1) then removes the last element.
SpliceOne(s, x) ==
    LET p == IndexOf(s, x)
        q == IF p = 0 THEN Len(s) ELSE p
    IN  IF Len(s) = 0 THEN s
        ELSE SubSeq(s, 1, q - 1) \o SubSeq(s, q + 1, Len(s))

SeqToSet(s) == {s[k] : k \in 1..Len(s)}

\* line 58: the runner tracks the in-flight promises only when this holds
TracksExecuting(lim, n) == lim <= n

\* a variant of the admission gate that admits one task too many
ReachedLimitOffByOne(exec, lim) == Len(exec) > lim

\* line 64: the admission gate
ReachedLimit(exec, lim) == Len(exec) >= lim

\* a variant of the gate that awaits Promise.all(executing): the runner goes
\* on only when nothing tracked remains in flight
RaceFulfilsWhenNoneLeft(remaining) == remaining = << >>

\* line 65: Promise.race(executing) fulfils as soon as one of its promises
\* does, whatever remains in executing
RaceFulfils(remaining) == TRUE

\* a variant of Promise.all that yields the values last to first
PromiseAllReversed(proms, value) ==
    [k \in 1..Len(proms) |-> value[proms[Len(proms) + 1 - k]]]

\* a variant that awaits the executing array instead of the results array
PromiseAllOfExecuting(proms, value) ==
    [k \in 1..Len(executing) |-> value[executing[k]]]

\* line 70: Promise.all(results) fulfils with the values in array order
PromiseAll(proms, value) == [k \in 1..Len(proms) |-> value[proms[k]]]

(* ---------------- runWithConcurrencyLimit ---------------- *)

\* a variant of the runner that does not register the callback of line 59:
\* only the reaction of Promise.all is queued
ReactionsAllOnly(q, i, st, newState) ==
    LET allDone == \A k \in 1..Len(items) : newState[k] = "fulfilled"
    IN  IF runnerPc = "all" /\ pending
        THEN IF st = "rejected" THEN Append(q, Job("allReject", i))
             ELSE IF allDone THEN Append(q, Job("allResolve", 0))
             ELSE q
        ELSE q

\* a variant of the runner that returns Promise.race(results): the first
\* task to settle while the runner waits at line 70 settles the runner
ReactionsRaceOfResults(q, i, st, newState) ==
    LET q1 == IF i \in SeqToSet(executing)
              THEN Append(q, Job(IF st = "fulfilled" THEN "executeThen" ELSE "executeReject", i))
              ELSE q
    IN  IF runnerPc = "all" /\ pending
        THEN IF st = "rejected" THEN Append(q1, Job("allReject", i))
             ELSE Append(q1, Job("allResolve", 0))
        ELSE q1

\* The reactions of the promise of task i once the task function has
\* settled, appended to queue q: first the reaction registered by
\* promise.then(...) at line 59 (when the runner tracks it), then the one of
\* Promise.all when the runner is already waiting there.
\* newState is the task state function after the settlement.
Reactions(q, i, st, newState) ==
    LET q1 == IF i \in SeqToSet(executing)
              THEN Append(q, Job(IF st = "fulfilled" THEN "executeThen" ELSE "executeReject", i))
              ELSE q
        allDone == \A k \in 1..Len(items) : newState[k] = "fulfilled"
        q2 == IF runnerPc = "all" /\ pending
              THEN IF st = "rejected" THEN Append(q1, Job("allReject", i))
                   ELSE IF allDone THEN Append(q1, Job("allResolve", 0))
                   ELSE q1
              ELSE q1
    IN  q2

\* whether the settlement of task i settles the Promise.all the runner awaits
SettlesAll(st, newState) ==
    /\ runnerPc = "all" /\ pending
    /\ \/ st = "rejected"
       \/ \A k \in 1..Len(items) : newState[k] = "fulfilled"

\* One pass of the for loop body (lines 50-68), or, when the loop is over,
\* the call of Promise.all (line 70).  Synchronous code: it runs while
\* runnerPc = "loop" and nothing else runs meanwhile.
LoopIteration ==
    /\ runnerPc = "loop"
    /\ IF index <= Len(items)
       THEN LET tracked == TracksExecuting(limit, Len(items))
                exec1 == IF tracked THEN Append(executing, index) ELSE executing
                gate == tracked /\ ReachedLimit(exec1, limit)
                \* Promise.race over an array holding an already rejected promise
                rejectedIn == \E k \in SeqToSet(exec1) : taskState[k] = "rejected"
            IN  /\ promises' = Append(promises, index)
                /\ taskState' = [taskState EXCEPT ![index] = "scheduled"]
                /\ executing' = exec1
                /\ index' = index + 1
                /\ runnerPc' = IF gate THEN "race" ELSE "loop"
                /\ pending' = (gate /\ ~rejectedIn)
                /\ microtasks' =
                       LET q == Append(microtasks, Job("callFn", index))
                       IN  IF gate /\ rejectedIn THEN Append(q, Job("raceReject", 0)) ELSE q
                /\ UNCHANGED <<items, limit, taskValue, resolved, settleOrder>>
       ELSE LET anyRejected == \E k \in 1..Len(items) : taskState[k] = "rejected"
                allDone == \A k \in 1..Len(items) : taskState[k] = "fulfilled"
            IN  /\ runnerPc' = "all"
                /\ pending' = ~(anyRejected \/ allDone)
                /\ microtasks' =
                       IF anyRejected THEN Append(microtasks, Job("allReject", 0))
                       ELSE IF allDone THEN Append(microtasks, Job("allResolve", 0))
                       ELSE microtasks
                /\ UNCHANGED <<items, limit, index, promises, executing,
                               taskState, taskValue, resolved, settleOrder>>

\* a microtask runs when no synchronous code is running
MicrotaskReady(t) ==
    /\ runnerPc # "loop"
    /\ microtasks # << >>
    /\ Head(microtasks).type = t

\* lines 59-61: the callback of promise.then, run when the task's promise
\* has fulfilled: it removes executePromise from executing; executePromise
\* then fulfils, which settles a pending Promise.race.
ExecuteThen ==
    /\ MicrotaskReady("executeThen")
    /\ LET i == Head(microtasks).i
           wake == runnerPc = "race" /\ pending /\ RaceFulfils(SpliceOne(executing, i))
       IN  /\ executing' = SpliceOne(executing, i)
           /\ pending' = IF wake THEN FALSE ELSE pending
           /\ microtasks' = IF wake THEN Append(Tail(microtasks), Job("raceResolve", 0))
                            ELSE Tail(microtasks)
    /\ UNCHANGED <<items, limit, index, runnerPc, promises, taskState, taskValue,
                   resolved, settleOrder>>

\* lines 59-61 when the task's promise has rejected: the callback is not
\* run, executePromise rejects and stays in executing; a pending
\* Promise.race rejects.
ExecuteReject ==
    /\ MicrotaskReady("executeReject")
    /\ LET wake == runnerPc = "race" /\ pending
       IN  /\ pending' = IF wake THEN FALSE ELSE pending
           /\ microtasks' = IF wake THEN Append(Tail(microtasks), Job("raceReject", 0))
                            ELSE Tail(microtasks)
    /\ UNCHANGED <<items, limit, index, runnerPc, promises, executing,
                   taskState, taskValue, resolved, settleOrder>>

\* line 65: await Promise.race(executing) returns, the loop goes on
RaceResolved ==
    /\ MicrotaskReady("raceResolve")
    /\ runnerPc' = "loop"
    /\ microtasks' = Tail(microtasks)
    /\ UNCHANGED <<items, limit, index, pending, promises, executing,
                   taskState, taskValue, resolved, settleOrder>>

\* line 65: await Promise.race(executing) throws, the runner's promise rejects
RaceRejected ==
    /\ MicrotaskReady("raceReject")
    /\ runnerPc' = "rejected"
    /\ microtasks' = Tail(microtasks)
    /\ UNCHANGED <<items, limit, index, pending, promises, executing,
                   taskState, taskValue, resolved, settleOrder>>

\* line 70: Promise.all(results) has fulfilled, the runner resolves
AllResolved ==
    /\ MicrotaskReady("allResolve")
    /\ runnerPc' = "resolved"
    /\ resolved' = PromiseAll(promises, taskValue)
    /\ microtasks' = Tail(microtasks)
    /\ UNCHANGED <<items, limit, index, pending, promises, executing,
                   taskState, taskValue, settleOrder>>

\* line 70: Promise.all(results) has rejected, the runner rejects
AllRejected ==
    /\ MicrotaskReady("allReject")
    /\ runnerPc' = "rejected"
    /\ microtasks' = Tail(microtasks)
    /\ UNCHANGED <<items, limit, index, pending, promises, executing,
                   taskState, taskValue, resolved, settleOrder>>

(* ---------------- a generic task function (SpecRunner) ---------------- *)

\* line 54: the callback () => fn(item, index) runs; the task starts
CallTask ==
    /\ phase = "runner"
    /\ MicrotaskReady("callFn")
    /\ LET i == Head(microtasks).i
       IN  taskState' = [taskState EXCEPT ![i] = "running"]
    /\ microtasks' = Tail(microtasks)
    /\ UNCHANGED <<items, limit, index, runnerPc, pending, promises, executing,
                   taskValue, resolved, settleOrder>>

\* a macrotask runs when the microtask queue is empty and nothing runs
MacrotaskReady ==
    /\ runnerPc # "loop"
    /\ microtasks = << >>

\* the promise returned by fn(item, index) settles: fulfilled with v or rejected
TaskSettle(i, st, v) ==
    /\ phase = "runner"
    /\ MacrotaskReady
    /\ taskState[i] = "running"
    /\ LET newState == [taskState EXCEPT ![i] = st]
       IN  /\ taskState' = newState
           /\ taskValue' = [taskValue EXCEPT ![i] = v]
           /\ microtasks' = Reactions(microtasks, i, st, newState)
           /\ pending' = IF SettlesAll(st, newState) THEN FALSE ELSE pending
    /\ settleOrder' = Append(settleOrder, i)
    /\ UNCHANGED <<items, limit, index, runnerPc, promises, executing, resolved>>

TaskFulfil == \E i \in 1..Len(items) : \E v \in Values : TaskSettle(i, "fulfilled", v)
TaskReject == \E i \in 1..Len(items) : TaskSettle(i, "rejected", Undefined)

(* ---------------- texts and child processes ---------------- *)

\* A text is a sequence of phrases; String.includes(phrase) looks for one.
Includes(text, phrase) == \E k \in 1..Len(text) : text[k] = phrase

\* Error.message of a failed exec
CommandFailed == <<"Command failed">>
\* the default error message of the catch block (line 419)
UnknownError == <<"Unknown error">>
\* line 390
SkippedError == <<"Skipped due to previous authentication failure">>

\* what a child process can write to standard error
StderrTexts == { << >>, <<"tmutil:", "busy">>, <<"Sorry", "try again">>,
                 <<"sudo:", "incorrect password">> }
\* what a child process can write to standard output
StdoutTexts == { << >>, <<"Sorry", "try again">> }

\* the outcomes of execAsync: the promise fulfils, or rejects with an Error
\* carrying message, stderr and stdout
ExecOk == [ok |-> TRUE, message |-> << >>, stderr |-> << >>, stdout |-> << >>]
ExecOutcomes ==
    {ExecOk} \cup
    {[ok |-> FALSE, message |-> CommandFailed, stderr |-> e, stdout |-> o] :
        e \in StderrTexts, o \in StdoutTexts}

\* the empty string of deletionProgress.snapshot; also the snapshot of a
\* toast that names none
NoSnapshot == 0

\* a toast shown by a call of showToast of its own: its title, the snapshot
\* the title names and its message
Notice(title, snap, message) == [title |-> title, snapshot |-> snap, message |-> message]

(* ---------------- PasswordForm ---------------- *)

Passwords == UNION {[1..k -> Chars] : k \in 0..MaxPwLen}

\* String.prototype.trim: removes the blanks at both ends
RECURSIVE TrimStart(_)
TrimStart(s) == IF s # << >> /\ Head(s) = " " THEN TrimStart(Tail(s)) ELSE s
RECURSIVE TrimEnd(_)
TrimEnd(s) == IF s # << >> /\ s[Len(s)] = " " THEN TrimEnd(SubSeq(s, 1, Len(s) - 1)) ELSE s
Trim(s) == TrimEnd(TrimStart(s))

\* a variant of the blank test that forgets to trim
IsBlankNoTrim(pw) == pw = << >>

\* line 106: !password.trim()
IsBlank(pw) == Trim(pw) = << >>

\* lines 74-96: the result of verifyPassword for an outcome of its exec
VerifyPassword(out) ==
    IF out.ok THEN [valid |-> TRUE, error |-> "undefined"]
    ELSE LET output == IF out.stderr # << >> THEN out.stderr
                       ELSE IF out.stdout # << >> THEN out.stdout
                       ELSE out.message
         IN  IF Includes(output, "Sorry") \/ Includes(output, "incorrect password")
             THEN [valid |-> FALSE, error |-> "Incorrect password"]
             ELSE [valid |-> FALSE, error |-> "Failed to verify password"]

\* a variant of deleteSnapshots without the test of line 329
NothingSelectedNever(selected) == FALSE

\* line 329: selectedSnapshots.size === 0
NothingSelected(selected) == Len(selected) = 0

\* a variant of the form that calls onSubmit whatever verifyPassword returned
OnSubmitCalledAlways(result) == TRUE

\* line 116: handleSubmit calls onSubmit(password) exactly when result.valid
OnSubmitCalled(result) == result.valid

\* verified before any call of verifyPassword has returned
NoVerification == [password |-> << >>, valid |-> FALSE]

\* lines 535-537: handleDelete pushes a new PasswordForm
HandleDelete ==
    /\ phase = "list"
    /\ ~formShown
    /\ formShown' = TRUE
    /\ password' = << >>
    /\ error' = "null"
    /\ isVerifying' = FALSE
    /\ UNCHANGED <<submitted, verified>>
    /\ UNCHANGED <<deleteVars, runnerVars, microtasks>>

\* lines 139-142: onChange of the password field
SetPassword ==
    /\ formShown
    /\ \E pw \in Passwords :
          /\ pw # password
          /\ password' = pw
    /\ error' = "null"
    /\ UNCHANGED <<isVerifying, formShown, submitted, verified>>
    /\ UNCHANGED <<deleteVars, runnerVars, microtasks>>

\* lines 105-114: handleSubmit up to its await: it rejects a blank password,
\* or calls verifyPassword, which starts the sudo child process.  The user
\* submits again only once the form has stopped loading.  submitted is the
\* password captured by the pending call of verifyPassword (empty when no
\* call is pending).
HandleSubmit ==
    /\ formShown
    /\ ~isVerifying
    /\ IF IsBlank(password)
       THEN /\ error' = "Please enter your password"
            /\ UNCHANGED <<isVerifying, submitted>>
       ELSE /\ isVerifying' = TRUE
            /\ error' = "null"
            /\ submitted' = password
    /\ UNCHANGED <<password, formShown, verified>>
    /\ UNCHANGED <<deleteVars, runnerVars, microtasks>>

\* lines 114-122: verifyPassword returns.  A valid result calls
\* onSubmit(password), that is deleteSnapshots up to its first await
\* (lines 328-345), and pops the form, whose state is then discarded.
\* With nothing selected deleteSnapshots returns at once (phase "returned",
\* where the model stops following the user).  verified keeps the password
\* the call was made with and the validity it returned.
VerifyDone ==
    /\ formShown
    /\ isVerifying
    /\ \E out \in ExecOutcomes :
        LET result == VerifyPassword(out)
        IN  /\ verified' = [password |-> submitted, valid |-> result.valid]
            /\ IF OnSubmitCalled(result)
               THEN /\ credential' = submitted
                    /\ IF NothingSelected(selectedSnapshots)
                       THEN /\ notices' = Append(notices, Notice("No snapshots selected", NoSnapshot, << >>))
                            /\ phase' = "returned"
                       ELSE /\ phase' = "confirm"
                            /\ UNCHANGED notices
                    /\ formShown' = FALSE
                    /\ password' = << >>
                    /\ error' = "null"
                    /\ isVerifying' = FALSE
               ELSE /\ error' = result.error
                    /\ isVerifying' = FALSE
                    /\ UNCHANGED <<password, formShown, credential, phase, notices>>
    /\ submitted' = << >>
    /\ UNCHANGED <<timers, preferences, selectedSnapshots, snapshotsToDelete, concurrencyLimit,
                   isDeleting, deletionProgress, toast, results, completedCount,
                   authFailed, commands, summary>>
    /\ UNCHANGED <<runnerVars, microtasks>>

(* ---------------- preferences ---------------- *)

\* characters of a configured value: the decimal digits, a sign, a blank
\* and a character that is none of these
Digits == <<"0", "1", "2", "3", "4", "5", "6", "7", "8", "9">>
PrefChars == SeqToSet(Digits) \cup {"-", " ", "x"}
IsDigit(c) == c \in SeqToSet(Digits)
DigitValue(c) == (CHOOSE k \in 1..Len(Digits) : Digits[k] = c) - 1

\* a JavaScript number: an integer, or NaN
Number(v) == [nan |-> FALSE, value |-> v]
NaN == [nan |-> TRUE, value |-> 0]

\* lines 24-26: what getPreferenceValues returns; the concurrency value can
\* be missing
NoPreference == [present |-> FALSE, concurrency |-> << >>]
Preference(text) == [present |-> TRUE, concurrency |-> text]
\* every value a configuration can hold
AllPreferences ==
    {NoPreference} \cup
    {Preference(text) : text \in UNION {[1..k -> PrefChars] : k \in 0..MaxPrefLen}}
\* the values the documentation names (README.md line 9), from 1 up to the
\* largest limit the model explores, and no value at all
ConfiguredPreferences ==
    {NoPreference} \cup {Preference(<<Digits[k + 1]>>) : k \in 1..MaxLimit}

\* the longest prefix of s made of decimal digits
RECURSIVE DigitPrefix(_)
DigitPrefix(s) ==
    IF s # << >> /\ IsDigit(Head(s)) THEN <<Head(s)>> \o DigitPrefix(Tail(s)) ELSE << >>

\* the value of a sequence of decimal digits
RECURSIVE DecimalValue(_)
DecimalValue(ds) ==
    IF ds = << >> THEN 0
    ELSE 10 * DecimalValue(SubSeq(ds, 1, Len(ds) - 1)) + DigitValue(ds[Len(ds)])

\* parseInt(s, 10): skips leading blanks, reads an optional sign and the
\* longest run of decimal digits, ignores what follows; NaN without a digit
ParseInt(s) ==
    LET t == TrimStart(s)
        negative == t # << >> /\ Head(t) = "-"
        ds == DigitPrefix(IF negative THEN Tail(t) ELSE t)
    IN  IF ds = << >> THEN NaN
        ELSE Number(IF negative THEN 0 - DecimalValue(ds) ELSE DecimalValue(ds))

\* line 376: preferences.concurrency || "3"; undefined and "" are falsy
OrDefault(prefs) ==
    IF prefs.present /\ prefs.concurrency # << >> THEN prefs.concurrency ELSE <<"3">>

\* line 376: the concurrency limit deleteSnapshots passes to the runner
ConcurrencyLimit(prefs) == ParseInt(OrDefault(prefs))

\* lines 375-377 alone: deleteSnapshots reads the configured value
ReadPreference ==
    /\ phase = "preferences"
    /\ phase' = "configured"
    /\ concurrencyLimit' = ConcurrencyLimit(preferences)
    /\ UNCHANGED <<timers, preferences, credential, selectedSnapshots, snapshotsToDelete,
                   isDeleting, deletionProgress, toast, results, completedCount,
                   authFailed, commands, summary, notices>>
    /\ UNCHANGED <<formVars, runnerVars, microtasks>>

(* ---------------- deleteSnapshots ---------------- *)

\* lines 419-449: the error message the catch block records
ErrorMessage(out) ==
    LET m1 == IF out.stderr # << >> THEN out.stderr ELSE out.message
    IN  IF out.stdout # << >> /\ m1 = UnknownError THEN out.stdout ELSE m1

\* a variant that takes every failure that wrote to standard error for an
\* authentication error
IsAuthErrorOnAnyStderr(out) == out.stderr # << >>

\* lines 429-438: the catch block detects an authentication error
IsAuthError(out) ==
    /\ out.stderr # << >>
    /\ Includes(out.stderr, "Sorry") \/ Includes(out.stderr, "incorrect password")

\* a variant of the assignment in which the last failure decides the flag,
\* so that a later failure of another kind resets it
SetAuthFailedLastWins(flag, out) == IsAuthError(out)

\* lines 381 and 435-438: authFailed once the catch block has inspected the
\* error; the only assignment after the declaration is authFailed = true
SetAuthFailed(flag, out) == flag \/ IsAuthError(out)

\* a variant of the skip path that returns without recording an outcome
PushSkippedDropped(rs, snap) == rs

\* a variant of the skip path that records the snapshot as deleted
PushSkippedAsSuccess(rs, snap) ==
    Append(rs, [snapshot |-> snap, success |-> TRUE, error |-> << >>])

\* lines 387-391: the outcome recorded for a skipped snapshot
PushSkipped(rs, snap) ==
    Append(rs, [snapshot |-> snap, success |-> FALSE, error |-> SkippedError])

\* line 410: the outcome recorded for a deleted snapshot
PushSuccess(rs, snap) ==
    Append(rs, [snapshot |-> snap, success |-> TRUE, error |-> << >>])

\* lines 453-457: the outcome recorded for a failed command
PushFailure(rs, snap, out) ==
    Append(rs, [snapshot |-> snap, success |-> FALSE, error |-> ErrorMessage(out)])

\* a variant of the catch block that runs the failed command once more
CommandsAfterFailureRetry(cmds, snap) == Append(cmds, snap)

\* lines 416-472: the commands invoked once the catch block has run for
\* snap; the block invokes none
CommandsAfterFailure(cmds, snap) == cmds

\* a variant of the increment that starts from the published progress
\* value, which is stale when several commands are in flight
NextCountStale(count, progress) == progress.current + 1

\* lines 413 and 470: completedCount++ (progress is the published
\* deletionProgress, which the increment does not read)
NextCount(count, progress) == count + 1

\* a variant of the failure count that leaves the skipped snapshots out
CountFailedNoSkipped(rs) ==
    Len(SelectSeq(rs, LAMBDA r : ~r.success /\ r.error # SkippedError))

\* results.filter(...).length
CountSuccess(rs) == Len(SelectSeq(rs, LAMBDA r : r.success))
CountFailed(rs) == Len(SelectSeq(rs, LAMBDA r : ~r.success))

\* lines 481-500: style and title of the final toast
SummaryOf(successful, failed) ==
    IF failed = 0
    THEN [style |-> "Success", title |-> "All snapshots deleted successfully",
          successful |-> successful, failed |-> failed]
    ELSE IF successful = 0
    THEN [style |-> "Failure", title |-> "Failed to delete snapshots",
          successful |-> successful, failed |-> failed]
    ELSE [style |-> "Failure", title |-> "Partially completed",
          successful |-> successful, failed |-> failed]

\* lines 478-500
Summarize(rs) == SummaryOf(CountSuccess(rs), CountFailed(rs))

\* lines 484-499: the message of the final toast (the first error is cut to
\* 100 characters in the source; the texts of the model are shorter)
SummaryMessage(rs) ==
    LET failedResults == SelectSeq(rs, LAMBDA r : ~r.success)
    IN  IF CountFailed(rs) = 0 THEN <<CountSuccess(rs), "snapshot(s) deleted">>
        ELSE IF CountSuccess(rs) = 0
        THEN IF failedResults[1].error # << >>
             THEN <<"Error:">> \o failedResults[1].error
             ELSE <<"All", CountFailed(rs), "deletion(s) failed">>
        ELSE <<CountSuccess(rs), "deleted", CountFailed(rs), "failed">>

\* lines 338-384: confirmAlert returns; when confirmed, deleteSnapshots
\* sets up the run and calls runWithConcurrencyLimit
ConfirmAlert ==
    /\ phase = "confirm"
    /\ \E confirmed \in BOOLEAN :
        IF ~confirmed
        THEN /\ phase' = "list"
             /\ UNCHANGED <<timers, preferences, credential, selectedSnapshots, snapshotsToDelete,
                            concurrencyLimit, isDeleting, deletionProgress, toast,
                            results, completedCount, authFailed, commands, summary,
                            notices>>
             /\ UNCHANGED <<runnerVars, microtasks>>
        ELSE LET parsed == ConcurrencyLimit(preferences)
                 lim == parsed.value
             IN
             /\ phase' = "deleting"
             /\ isDeleting' = TRUE
             /\ deletionProgress' = [current |-> 0, total |-> Len(selectedSnapshots),
                                     snapshot |-> NoSnapshot]
             /\ toast' = [style |-> "Animated", title |-> "Deleting snapshots...",
                          message |-> <<0, Len(selectedSnapshots)>>]
             /\ results' = << >>
             /\ snapshotsToDelete' = selectedSnapshots
             /\ concurrencyLimit' = parsed
             /\ completedCount' = 0
             /\ authFailed' = FALSE
             /\ items' = selectedSnapshots
             /\ limit' = lim
             /\ index' = 1
             /\ runnerPc' = "loop"
             /\ pending' = FALSE
             /\ promises' = << >>
             /\ executing' = << >>
             /\ taskState' = [k \in 1..Len(selectedSnapshots) |-> "pending"]
             /\ taskValue' = [k \in 1..Len(selectedSnapshots) |-> Undefined]
             /\ resolved' = << >>
             /\ settleOrder' = << >>
             /\ UNCHANGED <<timers, preferences, credential, selectedSnapshots, commands,
                            summary, notices, microtasks>>
    /\ UNCHANGED formVars

\* lines 384-403: the task function of deleteSnapshots is called for item i
\* and runs up to its await: it records a skip and returns, or starts the
\* privileged command
CallFn ==
    /\ phase = "deleting"
    /\ MicrotaskReady("callFn")
    /\ LET i == Head(microtasks).i
           newState == [taskState EXCEPT ![i] = "fulfilled"]
       IN  IF authFailed
           THEN /\ results' = PushSkipped(results, items[i])
                /\ settleOrder' = Append(settleOrder, i)
                /\ taskState' = newState
                /\ microtasks' = Reactions(Tail(microtasks), i, "fulfilled", newState)
                /\ pending' = IF SettlesAll("fulfilled", newState) THEN FALSE ELSE pending
                /\ UNCHANGED <<deletionProgress, commands>>
           ELSE /\ deletionProgress' = [current |-> completedCount,
                                        total |-> Len(snapshotsToDelete),
                                        snapshot |-> items[i]]
                /\ commands' = Append(commands, items[i])
                /\ taskState' = [taskState EXCEPT ![i] = "running"]
                /\ microtasks' = Tail(microtasks)
                /\ UNCHANGED <<results, pending, settleOrder>>
    /\ UNCHANGED <<timers, preferences, credential, phase, selectedSnapshots, snapshotsToDelete,
                   concurrencyLimit, isDeleting, toast, completedCount, authFailed,
                   summary, notices>>
    /\ UNCHANGED <<items, limit, index, runnerPc, promises, executing, taskValue, resolved>>
    /\ UNCHANGED formVars

\* lines 403-472: the privileged command of item i ends with outcome out and
\* the task function runs to its end
ExecCompleteOf(i, out) ==
    /\ MacrotaskReady
    /\ phase = "deleting"
    /\ i \in 1..Len(items)
    /\ LET newState == [taskState EXCEPT ![i] = "fulfilled"]
       IN  /\ taskState[i] = "running"
           /\ IF out.ok
              THEN /\ results' = PushSuccess(results, items[i])
                   /\ deletionProgress' = [current |-> NextCount(completedCount, deletionProgress),
                                           total |-> Len(snapshotsToDelete),
                                           snapshot |-> NoSnapshot]
                   /\ UNCHANGED <<authFailed, notices, commands>>
              ELSE /\ results' = PushFailure(results, items[i], out)
                   /\ commands' = CommandsAfterFailure(commands, items[i])
                   /\ authFailed' = SetAuthFailed(authFailed, out)
                   /\ notices' = IF IsAuthError(out)
                                 THEN Append(notices, Notice("Authentication Failed",
                                                             NoSnapshot, << >>))
                                 ELSE notices
                   /\ UNCHANGED deletionProgress
           /\ completedCount' = NextCount(completedCount, deletionProgress)
           /\ toast' = [toast EXCEPT !.message = <<NextCount(completedCount, deletionProgress),
                                                   Len(selectedSnapshots)>>]
           /\ settleOrder' = Append(settleOrder, i)
           /\ taskState' = newState
           /\ microtasks' = Reactions(microtasks, i, "fulfilled", newState)
           /\ pending' = IF SettlesAll("fulfilled", newState) THEN FALSE ELSE pending
    /\ UNCHANGED <<timers, preferences, credential, phase, selectedSnapshots, snapshotsToDelete,
                   concurrencyLimit, isDeleting, summary>>
    /\ UNCHANGED <<items, limit, index, runnerPc, promises, executing, taskValue, resolved>>
    /\ UNCHANGED formVars

\* the command of some item in flight ends with some outcome
ExecComplete ==
    \E i \in 1..Len(items) : \E out \in ExecOutcomes : ExecCompleteOf(i, out)

\* the delays of the two setTimeout calls, in milliseconds
DetailDelay == 1000
OverflowDelay == 2000
\* line 508: the number of failures shown in a toast of their own
MaxErrorsShown == 3

\* a variant that shows a toast for every failure
ErrorsToShowAll(failedResults) == failedResults

\* line 508: failedResults.slice(0, 3)
ErrorsToShow(failedResults) ==
    SubSeq(failedResults, 1,
           IF Len(failedResults) < MaxErrorsShown THEN Len(failedResults) ELSE MaxErrorsShown)

\* lines 509-517: the timer set for one failure
DetailTimer(r) ==
    [delay |-> DetailDelay,
     notice |-> Notice("Failed", r.snapshot,
                       IF r.error # << >> THEN r.error ELSE UnknownError)]

\* lines 503-528: the timers deleteSnapshots sets, in the order of the calls
\* of setTimeout
FailureTimers(rs) ==
    LET failedResults == SelectSeq(rs, LAMBDA r : ~r.success)
        errorsToShow == ErrorsToShow(failedResults)
        details == [k \in 1..Len(errorsToShow) |-> DetailTimer(errorsToShow[k])]
    IN  IF Len(failedResults) > MaxErrorsShown
        THEN Append(details,
                    [delay |-> OverflowDelay,
                     notice |-> Notice("More errors", NoSnapshot,
                                       <<Len(failedResults) - MaxErrorsShown,
                                         "more deletion(s) failed">>)])
        ELSE details

\* the timer that fires next: the first one set among those due soonest
RECURSIVE NextTimerFrom(_, _, _)
NextTimerFrom(ts, k, best) ==
    IF k > Len(ts) THEN best
    ELSE NextTimerFrom(ts, k + 1, IF ts[k].delay < ts[best].delay THEN k ELSE best)
NextTimer(ts) == NextTimerFrom(ts, 2, 1)

\* lines 510-516 and 520-526: a timer fires and its callback shows its toast
TimerFires ==
    /\ timers # << >>
    /\ microtasks = << >>
    /\ LET k == NextTimer(timers)
       IN  /\ notices' = Append(notices, timers[k].notice)
           /\ timers' = SubSeq(timers, 1, k - 1) \o SubSeq(timers, k + 1, Len(timers))
    /\ UNCHANGED <<preferences, credential, phase, selectedSnapshots, snapshotsToDelete,
                   concurrencyLimit, isDeleting, deletionProgress, toast, results,
                   completedCount, authFailed, commands, summary>>
    /\ UNCHANGED <<formVars, runnerVars, microtasks>>

\* lines 475-531: the runner has resolved; deleteSnapshots reports
ShowResults ==
    /\ phase = "deleting"
    /\ runnerPc = "resolved"
    /\ microtasks = << >>
    /\ summary' = Summarize(results)
    /\ toast' = [style |-> Summarize(results).style, title |-> Summarize(results).title,
                 message |-> SummaryMessage(results)]
    /\ isDeleting' = FALSE
    /\ selectedSnapshots' = << >>
    /\ phase' = "done"
    /\ timers' = FailureTimers(results)
    /\ UNCHANGED <<preferences, credential, snapshotsToDelete, concurrencyLimit,
                   deletionProgress, results, completedCount, authFailed, commands,
                   notices>>
    /\ UNCHANGED <<formVars, runnerVars, microtasks>>

(* ---------------- initial states ---------------- *)
NoToast == [style |-> "none", title |-> "none", message |-> << >>]
NoSummary == [style |-> "none", title |-> "none", successful |-> 0, failed |-> 0]

FormInit ==
    /\ password = << >>
    /\ error = "null"
    /\ isVerifying = FALSE
    /\ formShown = FALSE
    /\ submitted = << >>
    /\ verified = NoVerification

DeleteInit ==
    /\ credential = << >>
    /\ snapshotsToDelete = << >>
    /\ concurrencyLimit = Number(0)
    /\ isDeleting = FALSE
    /\ deletionProgress = [current |-> 0, total |-> 0, snapshot |-> 0]
    /\ toast = NoToast
    /\ results = << >>
    /\ completedCount = 0
    /\ authFailed = FALSE
    /\ commands = << >>
    /\ summary = NoSummary
    /\ notices = << >>
    /\ timers = << >>

RunnerCalled(its, lim) ==
    /\ items = its
    /\ limit = lim
    /\ index = 1
    /\ runnerPc = "loop"
    /\ pending = FALSE
    /\ promises = << >>
    /\ executing = << >>
    /\ taskState = [k \in 1..Len(its) |-> "pending"]
    /\ taskValue = [k \in 1..Len(its) |-> Undefined]
    /\ resolved = << >>
    /\ settleOrder = << >>

InitRunner ==
    /\ FormInit
    /\ DeleteInit
    /\ preferences = NoPreference
    /\ phase = "runner"
    /\ selectedSnapshots = << >>
    /\ microtasks = << >>
    /\ \E n \in 0..MaxItems : \E lim \in 1..MaxLimit :
          RunnerCalled([k \in 1..n |-> SnapshotId(k)], lim)

NextRunner ==
    \/ LoopIteration /\ UNCHANGED <<formVars, deleteVars>>
    \/ ExecuteThen /\ UNCHANGED <<formVars, deleteVars>>
    \/ ExecuteReject /\ UNCHANGED <<formVars, deleteVars>>
    \/ RaceResolved /\ UNCHANGED <<formVars, deleteVars>>
    \/ RaceRejected /\ UNCHANGED <<formVars, deleteVars>>
    \/ AllResolved /\ UNCHANGED <<formVars, deleteVars>>
    \/ AllRejected /\ UNCHANGED <<formVars, deleteVars>>
    \/ CallTask /\ UNCHANGED <<formVars, deleteVars>>
    \/ TaskFulfil /\ UNCHANGED <<formVars, deleteVars>>
    \/ TaskReject /\ UNCHANGED <<formVars, deleteVars>>

SpecRunner == InitRunner /\ [][NextRunner]_vars

\* The runner called with a task function that catches its own failures,
\* as the one of deleteSnapshots does: its promise always fulfils.  The
\* event loop runs every queued job and the synchronous code of the runner,
\* and every started task eventually settles.
NextRunnerFulfil ==
    \/ LoopIteration /\ UNCHANGED <<formVars, deleteVars>>
    \/ ExecuteThen /\ UNCHANGED <<formVars, deleteVars>>
    \/ RaceResolved /\ UNCHANGED <<formVars, deleteVars>>
    \/ AllResolved /\ UNCHANGED <<formVars, deleteVars>>
    \/ CallTask /\ UNCHANGED <<formVars, deleteVars>>
    \/ TaskFulfil /\ UNCHANGED <<formVars, deleteVars>>

FairRunner ==
    /\ WF_vars(LoopIteration /\ UNCHANGED <<formVars, deleteVars>>)
    /\ WF_vars(ExecuteThen /\ UNCHANGED <<formVars, deleteVars>>)
    /\ WF_vars(RaceResolved /\ UNCHANGED <<formVars, deleteVars>>)
    /\ WF_vars(AllResolved /\ UNCHANGED <<formVars, deleteVars>>)
    /\ WF_vars(CallTask /\ UNCHANGED <<formVars, deleteVars>>)
    /\ \A i \in 1..MaxItems :
          WF_vars(/\ i \in DOMAIN taskState
                  /\ \E v \in Values : TaskSettle(i, "fulfilled", v)
                  /\ UNCHANGED <<formVars, deleteVars>>)

SpecRunnerFair == InitRunner /\ [][NextRunnerFulfil]_vars /\ FairRunner

Init ==
    /\ FormInit
    /\ DeleteInit
    /\ preferences \in ConfiguredPreferences
    /\ phase = "list"
    /\ \E n \in 0..MaxItems : selectedSnapshots = [k \in 1..n |-> SnapshotId(k)]
    /\ microtasks = << >>
    /\ items = << >>
    /\ limit = 0
    /\ index = 1
    /\ runnerPc = "idle"
    /\ pending = FALSE
    /\ promises = << >>
    /\ executing = << >>
    /\ taskState = << >>
    /\ taskValue = << >>
    /\ resolved = << >>
    /\ settleOrder = << >>

\* the reading of the configured concurrency, for every value a
\* configuration can hold
InitPreferences ==
    /\ FormInit
    /\ DeleteInit
    /\ preferences \in AllPreferences
    /\ phase = "preferences"
    /\ selectedSnapshots = << >>
    /\ microtasks = << >>
    /\ items = << >>
    /\ limit = 0
    /\ index = 1
    /\ runnerPc = "idle"
    /\ pending = FALSE
    /\ promises = << >>
    /\ executing = << >>
    /\ taskState = << >>
    /\ taskValue = << >>
    /\ resolved = << >>
    /\ settleOrder = << >>

NextPreferences == ReadPreference

SpecPreferences == InitPreferences /\ [][NextPreferences]_vars

Next ==
    \/ HandleDelete
    \/ SetPassword
    \/ HandleSubmit
    \/ VerifyDone
    \/ ConfirmAlert
    \/ LoopIteration /\ UNCHANGED <<formVars, deleteVars>>
    \/ CallFn
    \/ ExecComplete
    \/ ExecuteThen /\ UNCHANGED <<formVars, deleteVars>>
    \/ RaceResolved /\ UNCHANGED <<formVars, deleteVars>>
    \/ AllResolved /\ UNCHANGED <<formVars, deleteVars>>
    \/ ShowResults
    \/ TimerFires

Spec == Init /\ [][Next]_vars

\* A run of four snapshots with the concurrency limit 2 in which the command
\* of the second snapshot is rejected by sudo and every other command that
\* is started succeeds.
ScenarioBSnapshots == [k \in 1..4 |-> SnapshotId(k)]
ScenarioBPreference == Preference(<<"2">>)
IncorrectPassword == <<"sudo:", "incorrect password">>

\* the outcome the step records is the one the scenario gives its snapshot
ScenarioBOutcome ==
    LET r == results'[Len(results')]
    IN  IF r.snapshot = SnapshotId(2)
        THEN ~r.success /\ r.error = IncorrectPassword
        ELSE r.success

InitScenarioB ==
    /\ FormInit
    /\ DeleteInit
    /\ preferences = ScenarioBPreference
    /\ phase = "list"
    /\ selectedSnapshots = ScenarioBSnapshots
    /\ microtasks = << >>
    /\ items = << >>
    /\ limit = 0
    /\ index = 1
    /\ runnerPc = "idle"
    /\ pending = FALSE
    /\ promises = << >>
    /\ executing = << >>
    /\ taskState = << >>
    /\ taskValue = << >>
    /\ resolved = << >>
    /\ settleOrder = << >>

NextScenarioB ==
    \/ HandleDelete
    \/ SetPassword
    \/ HandleSubmit
    \/ VerifyDone
    \/ ConfirmAlert
    \/ LoopIteration /\ UNCHANGED <<formVars, deleteVars>>
    \/ CallFn
    \/ ExecComplete /\ ScenarioBOutcome
    \/ ExecuteThen /\ UNCHANGED <<formVars, deleteVars>>
    \/ RaceResolved /\ UNCHANGED <<formVars, deleteVars>>
    \/ AllResolved /\ UNCHANGED <<formVars, deleteVars>>
    \/ ShowResults
    \/ TimerFires

SpecScenarioB == InitScenarioB /\ [][NextScenarioB]_vars

\* The reporting part of deleteSnapshots on its own: the runner has
\* resolved a run of 1..MaxOutcomes snapshots made with the default limit 3,
\* whose k-th recorded outcome is that of the k-th snapshot: deleted, failed
\* (tmutil or sudo) or skipped.  A snapshot is skipped only after a sudo
\* failure, and at most limit - 1 commands, those in flight at the first
\* sudo failure, end after it.
OutcomeKinds == {"deleted", "busy", "rejected", "skipped"}
OutcomeOf(kind, snap) ==
    [snapshot |-> snap,
     success |-> kind = "deleted",
     error |-> CASE kind = "deleted" -> << >>
                 [] kind = "busy" -> <<"tmutil:", "busy">>
                 [] kind = "rejected" -> <<"sudo:", "incorrect password">>
                 [] kind = "skipped" -> SkippedError]
CanBeRecorded(kinds) ==
    \A k \in 1..Len(kinds) :
        LET before == {j \in 1..(k - 1) : kinds[j] = "rejected"}
            first == CHOOSE j \in before : \A h \in before : j <= h
        IN  /\ kinds[k] = "skipped" => before # {}
            /\ (kinds[k] # "skipped" /\ before # {}) =>
                  Cardinality({j \in (first + 1)..k : kinds[j] # "skipped"}) <= 2
OutcomeLists ==
    {kinds \in UNION {[1..n -> OutcomeKinds] : n \in 1..MaxOutcomes} : CanBeRecorded(kinds)}

InitNotices ==
    /\ FormInit
    /\ preferences = NoPreference
    /\ credential = <<"x">>
    /\ phase = "deleting"
    /\ concurrencyLimit = Number(3)
    /\ limit = 3
    /\ isDeleting = TRUE
    /\ summary = NoSummary
    /\ timers = << >>
    /\ microtasks = << >>
    /\ runnerPc = "resolved"
    /\ pending = FALSE
    /\ executing = << >>
    /\ \E kinds \in OutcomeLists :
        LET n == Len(kinds)
            ids == [k \in 1..n |-> SnapshotId(k)]
            ran == SelectSeq(ids, LAMBDA id : kinds[id - SnapshotId(0)] # "skipped")
            rejected == SelectSeq(ids, LAMBDA id : kinds[id - SnapshotId(0)] = "rejected")
        IN  /\ selectedSnapshots = ids
            /\ snapshotsToDelete = ids
            /\ items = ids
            /\ index = n + 1
            /\ promises = [k \in 1..n |-> k]
            /\ settleOrder = [k \in 1..n |-> k]
            /\ taskState = [k \in 1..n |-> "fulfilled"]
            /\ taskValue = [k \in 1..n |-> Undefined]
            /\ resolved = [k \in 1..n |-> Undefined]
            /\ results = [k \in 1..n |-> OutcomeOf(kinds[k], ids[k])]
            /\ commands = ran
            /\ completedCount = Len(ran)
            /\ authFailed = (rejected # << >>)
            /\ notices = [k \in 1..Len(rejected) |->
                              Notice("Authentication Failed", NoSnapshot, << >>)]
            /\ deletionProgress = [current |-> Len(ran), total |-> n,
                                   snapshot |-> IF kinds[n] = "deleted" THEN NoSnapshot
                                                ELSE ran[Len(ran)]]
            /\ toast = [style |-> "Animated", title |-> "Deleting snapshots...",
                        message |-> <<Len(ran), n>>]

NextNotices ==
    \/ ShowResults
    \/ TimerFires

SpecNotices == InitNotices /\ [][NextNotices]_vars

\* the program, and the runner called on its own: the runner is also
\* followed for the item lists deleteSnapshots never passes to it
InitAll == Init \/ InitRunner
NextAll == Next \/ NextRunner
SpecAll == InitAll /\ [][NextAll]_vars

(* ======================= properties ======================= *)

Running == {i \in DOMAIN taskState : taskState[i] = "running"}
\* tasks whose promise exists and has not settled
Unsettled == {i \in DOMAIN taskState : taskState[i] \in {"scheduled", "running"}}
Skipped(r) == ~r.success /\ r.error = SkippedError
\* nothing is left to run: no queued job, no task in flight
Quiescent ==
    /\ runnerPc \notin {"idle", "loop"}
    /\ microtasks = << >>
    /\ Unsettled = {}

\* C1: in runWithConcurrencyLimit with limit L >= 1 the number of tasks that
\* have been created or started and have not yet settled never exceeds L.
C1_BoundedConcurrency ==
    limit >= 1 => Cardinality(Running) <= limit /\ Cardinality(Unsettled) <= limit

\* the gate is closed: L tasks are running and an item is still waiting
C1_Witness ==
    /\ runnerPc = "race" /\ pending
    /\ limit >= 2
    /\ Cardinality(Running) = limit
    /\ index <= Len(items)

\* C2: after a deletion run has finished, the recorded outcome list holds
\* exactly one outcome for every submitted target, and nothing else.
C2_OneOutcomePerTarget ==
    (phase = "done" \/ runnerPc = "resolved") =>
        /\ Len(results) = Len(snapshotsToDelete)
        /\ \A t \in 1..Len(snapshotsToDelete) :
              Cardinality({k \in 1..Len(results) :
                              results[k].snapshot = snapshotsToDelete[t]}) = 1

\* a finished run of three targets: one deleted, one failed, one skipped
C2_Witness ==
    /\ phase = "done"
    /\ limit >= 2
    /\ Len(results) = 3
    /\ \E a, b, c \in 1..3 :
          /\ results[a].success
          /\ ~results[b].success /\ ~Skipped(results[b])
          /\ Skipped(results[c])

\* C3: once authFailed is set, a task that starts is recorded as skipped
\* (success = false) and starts no command; a task in flight keeps running
\* until its command ends and then records an outcome of its own, never
\* Skipped.  So a recorded outcome is Skipped exactly when no command was
\* started for its snapshot.
C3_StartAfterAuthFailure ==
    authFailed =>
        \A i \in DOMAIN taskState :
            (taskState[i] = "scheduled" /\ taskState'[i] # "scheduled") =>
                /\ commands' = commands
                /\ taskState'[i] = "fulfilled"
                /\ results' = Append(results, [snapshot |-> items[i], success |-> FALSE,
                                               error |-> SkippedError])
C3_InFlightKeepsOutcome ==
    \A i \in DOMAIN taskState :
        taskState[i] = "running" =>
            \/ taskState'[i] = "running"
            \/ /\ taskState'[i] = "fulfilled"
               /\ Len(results') = Len(results) + 1
               /\ results'[Len(results')].snapshot = items[i]
               /\ ~Skipped(results'[Len(results')])
C3_SkippedIffNoCommand ==
    \A k \in 1..Len(results) :
        Skipped(results[k]) <=> results[k].snapshot \notin SeqToSet(commands)
C3_ShortCircuit ==
    /\ []C3_SkippedIffNoCommand
    /\ [][C3_StartAfterAuthFailure /\ C3_InFlightKeepsOutcome]_vars

\* after an authentication failure a snapshot was skipped, and a command
\* that was in flight at that moment ended later with success
C3_Witness ==
    /\ authFailed
    /\ \E j, k \in 1..Len(results) :
          /\ j < k
          /\ Skipped(results[j])
          /\ results[k].success

\* C4 as stated: the outcome list of a finished run has length N and its
\* i-th outcome is the outcome of targets[i].
C4_InputOrder ==
    phase = "done" =>
        /\ Len(results) = Len(snapshotsToDelete)
        /\ \A k \in 1..Len(results) : results[k].snapshot = snapshotsToDelete[k]

\* C4 amended: the outcome list of a finished run has length N and holds the
\* outcomes in the order in which the tasks settled; it is in input order
\* when the concurrency limit is 1.
C4_SettleOrder ==
    phase = "done" =>
        /\ Len(results) = Len(snapshotsToDelete)
        /\ Len(settleOrder) = Len(results)
        /\ \A k \in 1..Len(results) :
              results[k].snapshot = snapshotsToDelete[settleOrder[k]]
        /\ limit = 1 =>
              \A k \in 1..Len(results) : results[k].snapshot = snapshotsToDelete[k]

\* a finished run whose first recorded outcome is not that of the first target
C4_Witness ==
    /\ phase = "done"
    /\ limit >= 2
    /\ results[1].snapshot # snapshotsToDelete[1]

\* C5: the array runWithConcurrencyLimit resolves with has the length of
\* items and its i-th element is the value the task of items[i] returned.
C5_ResultOrder ==
    runnerPc = "resolved" =>
        /\ Len(resolved) = Len(items)
        /\ \A i \in 1..Len(items) : resolved[i] = taskValue[i]

\* the second task settled first and the two returned different values
C5_Witness ==
    /\ runnerPc = "resolved"
    /\ Len(items) >= 2
    /\ settleOrder[1] = 2
    /\ taskValue[1] # taskValue[2]

\* C6 as stated: every settled task, skipped ones included, adds one to
\* completedCount, so that it equals total once all tasks have settled.
C6_CountReachesTotal ==
    runnerPc = "resolved" => completedCount = Len(snapshotsToDelete)

\* C7: completedCount stays between 0 and total, no step decreases it, and
\* no increment is lost: it equals the number of commands that have ended.
C7_Range ==
    /\ 0 <= completedCount
    /\ completedCount <= Len(snapshotsToDelete)
    /\ completedCount = Len(commands) - Cardinality(Running)
C7_CountMonotone ==
    /\ []C7_Range
    /\ [][completedCount' >= completedCount]_vars

\* two commands of a run with limit >= 2 have ended while a third target
\* was waiting, so both were in flight together
C7_Witness ==
    /\ limit >= 2
    /\ Len(items) >= 3
    /\ completedCount = 2
    /\ Len(commands) = 2

Swap(rs, a, b) == [rs EXCEPT ![a] = rs[b], ![b] = rs[a]]

\* C9: for the outcomes of a finished run, successCount is the number of
\* outcomes with success = true, failureCount the number with success =
\* false (skipped included), their sum is the number of targets, the summary
\* is AllSucceeded when failureCount = 0, AllFailed when successCount = 0,
\* Partial otherwise, and reordering the outcomes does not change it.
C9_Summary ==
    phase = "done" =>
        LET ok == {k \in 1..Len(results) : results[k].success}
            ko == {k \in 1..Len(results) : ~results[k].success}
        IN  /\ results # << >>
            /\ summary.successful = Cardinality(ok)
            /\ summary.failed = Cardinality(ko)
            /\ summary.successful + summary.failed = Len(snapshotsToDelete)
            /\ summary.title = (IF ko = {} THEN "All snapshots deleted successfully"
                                ELSE IF ok = {} THEN "Failed to delete snapshots"
                                ELSE "Partially completed")
            /\ \A a, b \in 1..Len(results) : Summarize(Swap(results, a, b)) = summary

\* a partial run in which a snapshot was skipped
C9_Witness ==
    /\ phase = "done"
    /\ summary.title = "Partially completed"
    /\ \E k \in 1..Len(results) : Skipped(results[k])

WhitespaceOnly(pw) == \A k \in 1..Len(pw) : pw[k] = " "

\* C10: submitting an empty or whitespace-only password sets the validation
\* error and does nothing else: verifyPassword is not called, no child
\* process is started and deleteSnapshots is not called.  (With the form
\* shown and not verifying, a step that keeps the password field is a
\* submission.)
C10_BlankStep ==
    (formShown /\ ~isVerifying /\ password' = password /\ WhitespaceOnly(password)) =>
        /\ error' = "Please enter your password"
        /\ isVerifying' = isVerifying
        /\ submitted' = submitted
        /\ formShown' = formShown
        /\ UNCHANGED <<deleteVars, runnerVars, microtasks>>
C10_BlankRejected == [][C10_BlankStep]_vars

\* a whitespace-only password has been rejected and nothing was started
C10_Witness ==
    /\ formShown
    /\ error = "Please enter your password"
    /\ password # << >>
    /\ ~isVerifying
    /\ submitted = << >>
    /\ phase = "list"

\* deleteSnapshots has been called
RunEntered == phase \in {"confirm", "deleting", "done", "returned"}

\* C11: a deletion command is invoked only in a run entered after
\* verifyPassword returned valid for the password the run uses, and a
\* verification that fails (wrong password, or sudo could not be run) starts
\* nothing: the form stays and no state of deleteSnapshots changes.
C11_Verified ==
    (RunEntered \/ commands # << >>) =>
        /\ verified.valid
        /\ verified.password = credential
        /\ ~IsBlank(credential)
C11_Step ==
    /\ (phase = "list" /\ phase' # "list") =>
          /\ isVerifying
          /\ verified'.valid
          /\ verified'.password = submitted
          /\ credential' = submitted
    /\ (isVerifying /\ ~isVerifying' /\ ~verified'.valid) =>
          /\ formShown'
          /\ error' \in {"Incorrect password", "Failed to verify password"}
          /\ UNCHANGED <<deleteVars, runnerVars, microtasks>>
C11_VerifierGatesEntry == []C11_Verified /\ [][C11_Step]_vars

\* a command was invoked in a run entered with the password for which
\* verifyPassword had returned valid
C11_Witness ==
    /\ commands # << >>
    /\ verified.valid
    /\ credential = verified.password

\* the range of concurrent threads the documentation promises
MinThreads == 1
MaxThreads == 5

\* C12 as stated: the concurrency limit passed to the runner is an integer
\* in 1..5; it is 3 when the configured value is absent or cannot be parsed,
\* and a parsable value outside 1..5 is clamped into the range.
C12_LimitInRange ==
    phase = "configured" =>
        LET parsed == ParseInt(preferences.concurrency)
            absent == ~preferences.present \/ preferences.concurrency = << >>
        IN  /\ ~concurrencyLimit.nan
            /\ concurrencyLimit.value \in MinThreads..MaxThreads
            /\ (absent \/ parsed.nan) => concurrencyLimit.value = 3
            /\ (~absent /\ ~parsed.nan /\ parsed.value < MinThreads) =>
                  concurrencyLimit.value = MinThreads
            /\ (~absent /\ ~parsed.nan /\ parsed.value > MaxThreads) =>
                  concurrencyLimit.value = MaxThreads

\* C13: with nothing selected the run does nothing: deleteSnapshots returns
\* before it calls the runner, so that no task function runs and no command
\* is invoked, and it reports "No snapshots selected" instead of a summary;
\* the runner is called by deleteSnapshots with a non-empty list only, and
\* called with an empty list it starts no task, never waits and resolves
\* with the empty sequence.
C13_NothingSelected ==
    phase = "returned" =>
        /\ selectedSnapshots = << >>
        /\ runnerPc = "idle"
        /\ taskState = << >> /\ microtasks = << >>
        /\ commands = << >> /\ results = << >>
        /\ ~isDeleting
        /\ summary = NoSummary /\ toast = NoToast
        /\ notices = <<Notice("No snapshots selected", NoSnapshot, << >>)>>
C13_RunnerCalledNonEmpty ==
    /\ phase \in {"confirm", "deleting"} => selectedSnapshots # << >>
    /\ (phase \in {"deleting", "done"}) => items # << >> /\ snapshotsToDelete = items
C13_EmptyItems ==
    (runnerPc # "idle" /\ items = << >>) =>
        /\ taskState = << >> /\ promises = << >>
        /\ settleOrder = << >> /\ commands = << >>
        /\ ~pending
        /\ runnerPc \in {"loop", "all", "resolved"}
        /\ microtasks \in {<< >>, <<Job("allResolve", 0)>>}
        /\ runnerPc = "resolved" => resolved = << >>
        /\ ~(runnerPc = "all" /\ microtasks = << >>)
C13_EmptyIsNoOp ==
    C13_NothingSelected /\ C13_RunnerCalledNonEmpty /\ C13_EmptyItems

\* deleteSnapshots was called with a verified password and nothing selected
C13_Witness ==
    /\ phase = "returned"
    /\ verified.valid
    /\ notices # << >>

\* the outcome recorded for the t-th submitted snapshot
ResultOf(t) ==
    results[CHOOSE k \in 1..Len(results) : results[k].snapshot = snapshotsToDelete[t]]
AuthFailure(r) ==
    /\ ~r.success /\ ~Skipped(r)
    /\ Includes(r.error, "Sorry") \/ Includes(r.error, "incorrect password")
Invoked(t) == snapshotsToDelete[t] \in SeqToSet(commands)
\* task a settled before task b
SettledBefore(a, b) == IndexOf(settleOrder, a) < IndexOf(settleOrder, b)

\* C14 as stated: in the run of 4 targets with limit 2 where the command of
\* target 2 fails with "incorrect password" and the others would succeed,
\* target 2 ends Failed (auth), targets 3 and 4 end Skipped with no command
\* invoked for them, and target 1 ends with its own outcome.
C14_ScenarioB ==
    phase = "done" =>
        /\ AuthFailure(ResultOf(2))
        /\ Skipped(ResultOf(3)) /\ ~Invoked(3)
        /\ Skipped(ResultOf(4)) /\ ~Invoked(4)
        /\ ResultOf(1).success

\* C14 amended: target 2 ends Failed (auth) and target 1 with its own
\* outcome; targets 3 and 4 end Skipped with no command when the command of
\* target 2 fails while that of target 1 is still running; a target whose
\* command was started before that failure (target 3, and then target 4,
\* once an earlier command has ended) ends with its own outcome; and no
\* command is started once the failure has been recorded.
C14_Outcomes ==
    phase = "done" =>
        /\ AuthFailure(ResultOf(2))
        /\ ResultOf(1).success
        /\ \A t \in 3..4 :
              /\ Skipped(ResultOf(t)) <=> ~Invoked(t)
              /\ Invoked(t) => ResultOf(t).success /\ SettledBefore(1, 2)
        /\ SettledBefore(2, 1) =>
              /\ Skipped(ResultOf(3)) /\ ~Invoked(3)
              /\ Skipped(ResultOf(4)) /\ ~Invoked(4)
        /\ Skipped(ResultOf(3)) => Skipped(ResultOf(4))
C14_NoStartAfterFailure ==
    (authFailed /\ phase = "deleting") => commands' = commands
C14_ScenarioBInFlight == []C14_Outcomes /\ [][C14_NoStartAfterFailure]_vars

\* the command of target 2 failed while that of target 1 was running:
\* targets 3 and 4 were skipped and target 1 was deleted
C14_Witness ==
    /\ phase = "done"
    /\ Len(items) = 4 /\ limit = 2
    /\ settleOrder[1] = 2
    /\ AuthFailure(ResultOf(2))
    /\ Skipped(ResultOf(3)) /\ Skipped(ResultOf(4))
    /\ ResultOf(1).success

\* C15: within a run the deletion command is invoked at most once per
\* target, and for submitted targets only; a step that records a failure
\* invokes no command, and a command is invoked only for a target that has
\* no outcome yet.
C15_AtMostOnce ==
    /\ \A j, k \in 1..Len(commands) : commands[j] = commands[k] => j = k
    /\ SeqToSet(commands) \subseteq SeqToSet(snapshotsToDelete)
C15_Step ==
    /\ (Len(results') > Len(results) /\ ~results'[Len(results')].success) =>
          commands' = commands
    /\ commands' # commands =>
          /\ Len(commands') = Len(commands) + 1
          /\ \A k \in 1..Len(results') :
                results'[k].snapshot # commands'[Len(commands')]
C15_NoRetry == []C15_AtMostOnce /\ [][C15_Step]_vars

\* a run of three targets is over: a command was invoked for each of them,
\* the first one failed and no command followed for its target
C15_Witness ==
    /\ phase = "done"
    /\ Len(commands) = 3
    /\ ~ResultOf(1).success
    /\ ~Skipped(ResultOf(1))

\* every item has been started and its task has settled
AllStarted ==
    /\ Len(promises) = Len(items)
    /\ \A i \in DOMAIN taskState : taskState[i] = "fulfilled"

\* C16: for every limit >= 1, also one equal to or larger than the number
\* of items, and every item list: when every started task eventually
\* settles, the runner eventually resolves, having started every item, and
\* whenever it waits at the admission gate it eventually leaves it.
C16_Resolves == <>(runnerPc = "resolved" /\ AllStarted /\ Len(resolved) = Len(items))
C16_LeavesGate == (runnerPc = "race") ~> (runnerPc # "race")
NoticesTitled(title) == SelectSeq(notices, LAMBDA n : n.title = title)

\* C17: once the timers of a finished run have fired, the number of
\* "Failed: <snapshot>" toasts is min(F, 3), F being the number of failed or
\* skipped outcomes; they are for the first three failures of results, in
\* that order; and one "More errors" toast, which reports F - 3, is shown
\* exactly when F > 3.  At no time are there more than three detail toasts.
C17_FailureNotices ==
    LET failedResults == SelectSeq(results, LAMBDA r : ~r.success)
        F == Len(failedResults)
        details == NoticesTitled("Failed")
        more == NoticesTitled("More errors")
    IN  /\ Len(details) <= 3
        /\ Len(more) <= 1
        /\ phase # "done" => details = << >> /\ more = << >>
        /\ (phase = "done" /\ timers = << >>) =>
              /\ Len(details) = (IF F < 3 THEN F ELSE 3)
              /\ \A k \in 1..Len(details) :
                    /\ details[k].snapshot = failedResults[k].snapshot
                    /\ details[k].message = failedResults[k].error
              /\ Len(more) = (IF F > 3 THEN 1 ELSE 0)
              /\ F > 3 => more[1].message[1] = F - 3
              /\ F > 3 => notices[Len(notices)] = more[1]

\* five outcomes of which the first is a success and four are failures:
\* three detail toasts and the overflow toast have been shown
C17_Witness ==
    /\ phase = "done"
    /\ timers = << >>
    /\ results[1].success
    /\ CountFailed(results) = 4
    /\ Len(NoticesTitled("Failed")) = 3
    /\ Len(NoticesTitled("More errors")) = 1

\* C18: the runner waits at the admission gate only while the window is
\* full.  Whenever a task can settle (no job is queued and no synchronous
\* code runs) and an item has not been started, the runner is waiting at the
\* gate and exactly limit tasks are in flight: so once a single one of them
\* has settled, the next item is started before any other task settles, and
\* the runner never waits for the rest of the window.
C18_SlidingWindow ==
    (MacrotaskReady /\ runnerPc # "rejected" /\ limit >= 1
        /\ \E i \in DOMAIN taskState : taskState[i] = "pending") =>
            /\ runnerPc = "race" /\ pending
            /\ Cardinality(Running) = limit
            /\ Running = SeqToSet(executing)

\* window of two: one of the first two tasks has settled and the third
\* item runs beside the other one, which has not settled
C18_Witness ==
    /\ phase = "runner"
    /\ limit = 2
    /\ Len(items) = 3
    /\ MacrotaskReady
    /\ Len(settleOrder) = 1
    /\ taskState[3] = "running"
    /\ Cardinality(Running) = 2

\* the error text carries none of the phrases of an authentication rejection
NoAuthSignature(text) == ~Includes(text, "Sorry") /\ ~Includes(text, "incorrect password")

\* C19: a step that records the failure of a command whose error carries no
\* authentication signature changes nothing but its own target: authFailed
\* keeps its value, the outcomes recorded before stay as they are, no other
\* task changes state and no toast of its own is shown.  authFailed is set
\* exactly when a recorded failure carries such a signature, and a target is
\* skipped only then; recorded outcomes are never changed.
C19_Step ==
    LET r == results'[Len(results')]
    IN  /\ (Len(results') = Len(results) + 1 /\ ~r.success /\ ~Skipped(r)
               /\ NoAuthSignature(r.error)) =>
              /\ authFailed' = authFailed
              /\ commands' = commands
              /\ notices' = notices
              /\ \A j \in DOMAIN taskState :
                    items[j] # r.snapshot => taskState'[j] = taskState[j]
        /\ (phase = "deleting" /\ results' # results) =>
              /\ Len(results') = Len(results) + 1
              /\ SubSeq(results', 1, Len(results)) = results
C19_AuthFailedIffSignature ==
    /\ authFailed <=> \E k \in 1..Len(results) : AuthFailure(results[k])
    /\ (\E k \in 1..Len(results) : Skipped(results[k])) => authFailed
C19_OwnTargetOnly == []C19_AuthFailedIffSignature /\ [][C19_Step]_vars

\* with limit 1 the first command failed for a reason that is not an
\* authentication rejection and the next target was deleted afterwards
C19_Witness ==
    /\ phase = "done"
    /\ limit = 1
    /\ Len(results) >= 2
    /\ ~results[1].success /\ NoAuthSignature(results[1].error)
    /\ results[2].success
    /\ ~authFailed

\* C20: the summary is computed once, by a step taken when every submitted
\* target's task has settled and recorded its outcome: no task is in
\* flight or waiting to be started, no job is queued, and results holds one
\* outcome per target; the summary is that of this outcome list.
C20_AllSettled ==
    /\ Unsettled = {}
    /\ microtasks = << >>
    /\ runnerPc = "resolved"
    /\ \A i \in DOMAIN taskState : taskState[i] = "fulfilled"
    /\ Len(settleOrder) = Len(snapshotsToDelete)
    /\ Len(results) = Len(snapshotsToDelete)
C20_Summarized ==
    summary # NoSummary =>
        /\ phase = "done"
        /\ C20_AllSettled
        /\ summary = Summarize(results)
C20_Step ==
    summary' # summary =>
        /\ summary = NoSummary
        /\ C20_AllSettled
        /\ results' = results
        /\ summary' = Summarize(results)
C20_SummaryAfterAllSettled == []C20_Summarized /\ [][C20_Step]_vars

\* three commands were in flight together while the runner waited at
\* Promise.all, and the summary counts the three outcomes
C20_Witness ==
    /\ phase = "done"
    /\ limit >= 3
    /\ Len(items) = 3
    /\ summary.successful + summary.failed = 3
    /\ summary.successful = 2

\* a text that contains one of the known rejection phrases
AuthSignature(text) == Includes(text, "Sorry") \/ Includes(text, "incorrect password")

\* C21 as stated: whenever a deletion command fails and its standard error
\* or its standard output contains "Sorry" or "incorrect password", the
\* step that records the failure classifies it as an authentication
\* failure (the "Authentication Failed" toast is shown) and leaves
\* authFailed true.
C21_Step ==
    \A i \in 1..Len(items) : \A out \in ExecOutcomes :
        (/\ ExecCompleteOf(i, out)
         /\ ~out.ok
         /\ AuthSignature(out.stderr) \/ AuthSignature(out.stdout)) =>
            /\ authFailed'
            /\ notices' = Append(notices, Notice("Authentication Failed", NoSnapshot, << >>))
C21_SignatureOnEitherStream == [][C21_Step]_vars

\* the number of times the assignment authFailed = true (line 437) has been
\* executed: once for every recorded failure classified as an
\* authentication error
AuthFailedWrites == Cardinality({k \in 1..Len(results) : AuthFailure(results[k])})

\* C22 as stated: within one run authFailed starts false, is written at most
\* once, and is never reset to false, even when several commands in flight
\* fail with an authentication rejection. (That no step resets the flag is
\* the first conjunct of C22_Step below.)
C22_WrittenAtMostOnce ==
    /\ results = << >> => ~authFailed
    /\ authFailed => AuthFailedWrites = 1

\* C22, amended: within one run authFailed starts false and changes value at
\* most once, from false to true, in the step that records the first
\* authentication failure; no step resets it. Every command in flight that
\* fails with an authentication rejection executes the assignment again,
\* so the flag is written once per such failure, at most limit times, and
\* exactly once when limit is 1.
C22_Flag ==
    /\ results = << >> => ~authFailed
    /\ authFailed <=> AuthFailedWrites >= 1
    /\ AuthFailedWrites <= limit
    /\ AuthFailedWrites = Len(NoticesTitled("Authentication Failed"))
C22_Step ==
    /\ authFailed => authFailed'
    /\ authFailed' # authFailed =>
          /\ Len(results') = Len(results) + 1
          /\ AuthFailure(results'[Len(results')])
          /\ AuthFailedWrites' = 1
C22_SetNeverReset == []C22_Flag /\ [][C22_Step]_vars

\* two commands in flight together were both rejected, so the assignment ran
\* twice, and a third command that was in flight failed later for another
\* reason and left the flag true
C22_Witness ==
    /\ authFailed
    /\ AuthFailedWrites = 2
    /\ Len(results) = 3
    /\ ~results[3].success /\ ~Skipped(results[3]) /\ ~AuthFailure(results[3])

\* C23 as stated: after each step in which a task settles, the completed
\* count last published by setDeletionProgress equals completedCount, and
\* once every task of the run has settled it equals total.
C23_Step ==
    settleOrder' # settleOrder =>
        /\ deletionProgress'.current = completedCount'
        /\ Len(settleOrder') = Len(snapshotsToDelete) =>
              deletionProgress'.current = deletionProgress'.total
C23_PublishedCountCurrent == [][C23_Step]_vars

====
